---- MODULE Spec2Model ----
(***************************************************************************)
(* Model of the uC compiler front end (src/ucc): the scoped symbol table   *)
(* and the type-checking visitor of type_checking.py, and the declarator   *)
(* composition of parser.py.                                               *)
(*                                                                         *)
(* Six specifications share the module:                                   *)
(*   Spec      the Visitor checking a Program, one global item at a time   *)
(*   SpecNode  the rules of the Visitor applied to single nodes            *)
(*   SpecSym   a SymbolTable driven by arbitrary calls                     *)
(*   SpecDecl  UCParser._type_modify_decl applied to a growing declarator  *)
(*   SpecFix   SpecDecl followed by UCParser._build_declarations           *)
(*   SpecList  a comma expression or argument list reduced item by item    *)
(*                                                                         *)
(* Python values are modelled as follows.  A str is a TLA+ string; None is *)
(* the string None below (no identifier or type of the model is spelled    *)
(* that way).  An AST node is a record with a `kind` field (the class      *)
(* name) and the slots of the class; an absent child (None) is NoneNode.   *)
(* An exception is the non-empty string held by `err`: the message of an   *)
(* AssertionError, or the name of the built-in exception class.            *)
(***************************************************************************)
EXTENDS Integers, Sequences, FiniteSets, TLC

VARIABLES
    \* SymbolTable (Visitor.symtab in Spec, the table under test in SpecSym)
    scope,      \* SymbolTable.scope
    symtabs,    \* SymbolTable.symtabs: sequence of frames (name -> value)
    begins,     \* number of begin_scope calls that returned
    ends,       \* number of end_scope calls that returned
    \* Visitor
    fmap,       \* Visitor.fmap: function name -> value of visit(args)
    amap,       \* Visitor.amap: array name -> [type, dims]
    ret,        \* value returned by the last call
    aux,        \* the node returned by the last call, when it returned a node
    err,        \* exception raised by the last call (NoErr: none)
    errs,       \* every raise so far: the exception and the table and log it left
    log,        \* nodes NodeVisitor.visit was entered for, in order
    muts,       \* assignments made to node fields: <<coord, field, value>>
    pc,         \* position in Visitor.visit_Program
    gdecls,     \* Program.gdecls: the items visited so far
    \* SymbolTable driver (SpecSym)
    op,         \* the last call made on the table
    arg,        \* its name argument
    open,       \* tokens of the frames opened and not yet closed, outermost first
    puts,       \* every put that returned: [frame, name, value], oldest first
    nops,       \* number of calls that changed the table
    \* declarator under construction (SpecDecl)
    heap,       \* node id -> [kind, type, dim]
    head,       \* the declarator returned by the last _type_modify_decl
    applied     \* ids of the modifiers applied so far, in source order

vars == <<scope, symtabs, begins, ends, fmap, amap, ret, aux, err, errs, log, muts,
          pc, gdecls, op, arg, open, puts, nops, heap, head, applied>>

symVars  == <<scope, symtabs, begins, ends>>
visVars  == <<fmap, amap, aux, log, muts, pc, gdecls>>
drvVars  == <<op, arg, open, puts, nops>>
declVars == <<heap, head, applied>>

None  == "<None>"
NoErr == ""

(* None where a node is expected; type(None).__name__ is NoneType. *)
NoneNode == [kind |-> "NoneType", coord |-> 0]

(* The value of `ret` when the call returned a node (held by aux) or a list *)
NodeVal == "<node>"
ListVal == "<list>"

-----------------------------------------------------------------------------
(* Bounds *)
MaxSymOps == 5      \* table-changing calls in a SymbolTable run
MaxMods   == 4      \* modifiers applied to one declarator
MaxDecls  == 2      \* declaration items of a checked program
MaxStmts  == 1      \* statement items of a checked program
MaxEnv    == 2      \* declarators visited before the node under test
MaxItems  == 3      \* items of a comma expression or argument list

-----------------------------------------------------------------------------
(* Python list indexing: symtabs[i] raises IndexError outside -len..len-1, *)
(* and a negative index counts from the end.  PyIndex is the 1-based       *)
(* position, 0 when the index is out of range.                             *)
PyIndex(len, i) ==
    IF i >= 0 /\ i < len THEN i + 1
    ELSE IF i < 0 /\ i >= -len THEN len + i + 1
    ELSE 0

(* `raise`: errs keeps, for each raise, what had been done when it happened *)
Raise(st, e) ==
    [st EXCEPT !.err = e, !.ret = None, !.aux = NoneNode,
               !.errs = Append(@, [err |-> e, visited |-> Len(st.log),
                                   scope |-> st.scope, symtabs |-> st.symtabs,
                                   begins |-> st.begins, ends |-> st.ends])]

Ret(st, v) == [st EXCEPT !.ret = v, !.aux = NoneNode]

(* SymbolTable.__init__ *)
NewSymbolTable == [scope |-> -1, symtabs |-> <<>>]

(* SymbolTable.lookup: for i in range(self.scope, -1, -1) *)
RECURSIVE lookupFrom(_, _, _)
lookupFrom(st, a, i) ==
    IF i < 0 THEN Ret(st, None)
    ELSE IF PyIndex(Len(st.symtabs), i) = 0 THEN Raise(st, "IndexError")
    ELSE IF a \in DOMAIN st.symtabs[PyIndex(Len(st.symtabs), i)]
         THEN Ret(st, st.symtabs[PyIndex(Len(st.symtabs), i)][a])
         ELSE lookupFrom(st, a, i - 1)

lookup_Outermost(st, a) ==
    LET hit == {i \in 1..Len(st.symtabs) : a \in DOMAIN st.symtabs[i]}
    IN IF hit = {} THEN Ret(st, None)
       ELSE Ret(st, st.symtabs[CHOOSE i \in hit : \A j \in hit : i <= j][a])

lookup(st, a) == lookupFrom(st, a, st.scope)

(* SymbolTable.put *)
put_Outermost(st, a, v) ==
    IF Len(st.symtabs) = 0 THEN Raise(st, "IndexError")
    ELSE [st EXCEPT !.symtabs[1] = (a :> v) @@ @, !.ret = None, !.aux = NoneNode]

put(st, a, v) ==
    LET k == PyIndex(Len(st.symtabs), st.scope)
    IN IF k = 0 THEN Raise(st, "IndexError")
       ELSE [st EXCEPT !.symtabs[k] = (a :> v) @@ @, !.ret = None, !.aux = NoneNode]

(* SymbolTable.begin_scope *)
begin_scope(st) ==
    [st EXCEPT !.scope = @ + 1, !.symtabs = Append(@, <<>>),
               !.begins = @ + 1, !.ret = None, !.aux = NoneNode]

(* SymbolTable.end_scope: list.pop() raises on an empty list, before the   *)
(* counter is touched.                                                     *)
end_scope_DecFirst(st) ==
    LET s == [st EXCEPT !.scope = @ - 1]
    IN IF Len(st.symtabs) = 0 THEN Raise(s, "IndexError")
       ELSE [s EXCEPT !.symtabs = SubSeq(@, 1, Len(@) - 1),
                      !.ends = @ + 1, !.ret = None, !.aux = NoneNode]

end_scope_KeepCounter(st) ==
    IF Len(st.symtabs) = 0
    THEN Raise(st, "IndexError")
    ELSE [st EXCEPT !.symtabs = SubSeq(@, 1, Len(@) - 1),
                    !.ends = @ + 1, !.ret = None, !.aux = NoneNode]

end_scope(st) ==
    IF Len(st.symtabs) = 0
    THEN Raise(st, "IndexError")
    ELSE [st EXCEPT !.symtabs = SubSeq(@, 1, Len(@) - 1), !.scope = @ - 1,
                    !.ends = @ + 1, !.ret = None, !.aux = NoneNode]

-----------------------------------------------------------------------------
(* The interpreter state the operators above and the visit_* rules below   *)
(* transform, and its write-back to the variables.                         *)
CurSt ==
    [scope |-> scope, symtabs |-> symtabs, begins |-> begins, ends |-> ends,
     fmap |-> fmap, amap |-> amap, ret |-> ret, aux |-> aux, err |-> err,
     errs |-> errs, log |-> log, muts |-> muts]

SetSt(s) ==
    /\ scope' = s.scope /\ symtabs' = s.symtabs
    /\ begins' = s.begins /\ ends' = s.ends
    /\ fmap' = s.fmap /\ amap' = s.amap
    /\ ret' = s.ret /\ aux' = s.aux /\ err' = s.err
    /\ errs' = s.errs /\ log' = s.log /\ muts' = s.muts

(* Visitor.__init__ (with SymbolTable.__init__) *)
VisitorInit ==
    /\ scope = NewSymbolTable.scope /\ symtabs = NewSymbolTable.symtabs
    /\ begins = 0 /\ ends = 0
    /\ fmap = <<>> /\ amap = <<>>
    /\ ret = None /\ aux = NoneNode /\ err = NoErr
    /\ errs = <<>> /\ log = <<>> /\ muts = <<>>
    /\ pc = "start" /\ gdecls = <<>>

DriverInit == op = "init" /\ arg = None /\ open = <<>> /\ puts = <<>> /\ nops = 0

-----------------------------------------------------------------------------
(* SpecSym: a SymbolTable driven by arbitrary calls.  A call that raises   *)
(* returns control to the caller, who may go on using the table.           *)
Names == {"a", "b"}
Vals  == {"int", "float"}

Call == [CurSt EXCEPT !.err = NoErr, !.errs = <<>>]

SymBegin ==
    /\ nops < MaxSymOps
    /\ SetSt(begin_scope(Call))
    /\ op' = "begin_scope" /\ arg' = None
    /\ open' = Append(open, begins + 1)
    /\ nops' = nops + 1
    /\ UNCHANGED <<puts, pc, gdecls, declVars>>

SymEnd ==
    /\ Len(symtabs) > 0 => nops < MaxSymOps
    /\ LET s == end_scope(Call)
       IN /\ SetSt(s)
          /\ open' = IF s.err = NoErr THEN SubSeq(open, 1, Len(open) - 1) ELSE open
          /\ nops' = IF s.err = NoErr THEN nops + 1 ELSE nops
    /\ op' = "end_scope" /\ arg' = None
    /\ UNCHANGED <<puts, pc, gdecls, declVars>>

SymPut ==
    \E a \in Names, v \in Vals :
        /\ Len(symtabs) > 0 => nops < MaxSymOps
        /\ LET s == put(Call, a, v)
           IN /\ SetSt(s)
              /\ puts' = IF s.err = NoErr
                         THEN Append(puts, [frame |-> open[Len(open)],
                                            name |-> a, value |-> v])
                         ELSE puts
              /\ nops' = IF s.err = NoErr THEN nops + 1 ELSE nops
        /\ op' = "put" /\ arg' = a
        /\ UNCHANGED <<open, pc, gdecls, declVars>>

SymLookup ==
    \E a \in Names :
        /\ SetSt(lookup(Call, a))
        /\ op' = "lookup" /\ arg' = a
        /\ UNCHANGED <<open, puts, nops, pc, gdecls, declVars>>

SymNext == SymBegin \/ SymEnd \/ SymPut \/ SymLookup

SymInit == VisitorInit /\ DriverInit
           /\ heap = <<>> /\ head = 0 /\ applied = <<>>

SpecSym == SymInit /\ [][SymNext]_vars

-----------------------------------------------------------------------------
(* Declarator composition (parser.py).  The nodes of one declarator live   *)
(* in `heap`, a sequence indexed by node id; a `type` link is a node id,   *)
(* Nil for None.                                                           *)
Nil == 0

Dims == {"5", "10", None}

(* ast.VarDecl(name, None), ast.ID(name): the leaf of a declarator *)
LeafNode(k) == [kind |-> k, type |-> Nil, dim |-> None]

(* ast.ArrayDecl(None, dim, coord), p_direct_declarator_3 *)
NewArrayDecl(d) == [kind |-> "ArrayDecl", type |-> Nil, dim |-> d]

(* ast.FuncDecl(args, None, coord), p_direct_declarator_4 *)
NewFuncDecl == [kind |-> "FuncDecl", type |-> Nil, dim |-> None]

(* The slots of the node classes: ID has no `type` attribute. *)
HasTypeSlot(k) == k \in {"Constant", "Decl", "FuncDecl", "VarDecl", "Cast", "ArrayDecl"}

(* while modifier_tail.type: modifier_tail = modifier_tail.type *)
RECURSIVE ModifierTail(_, _)
ModifierTail(h, m) ==
    IF h[m].type # Nil THEN ModifierTail(h, h[m].type) ELSE m

(* while not isinstance(decl_tail.type, ast.VarDecl): decl_tail = decl_tail.type *)
(* Nil: reading .type failed (AttributeError).                              *)
RECURSIVE DeclTail(_, _)
DeclTail(h, d) ==
    IF d = Nil \/ ~HasTypeSlot(h[d].kind) THEN Nil
    ELSE IF h[d].type # Nil /\ h[h[d].type].kind = "VarDecl" THEN d
    ELSE DeclTail(h, h[d].type)

type_modify_decl_Prepend(h, decl, modifier) ==
    [heap |-> [h EXCEPT ![ModifierTail(h, modifier)].type = decl],
     head |-> modifier, err |-> NoErr]

type_modify_decl_LoseLeaf(h, decl, modifier) ==
    IF h[decl].kind = "VarDecl"
    THEN [heap |-> [h EXCEPT ![ModifierTail(h, modifier)].type = decl],
          head |-> modifier, err |-> NoErr]
    ELSE IF DeclTail(h, decl) = Nil
    THEN [heap |-> h, head |-> decl, err |-> "AttributeError"]
    ELSE [heap |-> [h EXCEPT ![DeclTail(h, decl)].type = modifier],
          head |-> decl, err |-> NoErr]

(* UCParser._type_modify_decl *)
type_modify_decl(h, decl, modifier) ==
    LET modifier_tail == ModifierTail(h, modifier)
    IN IF h[decl].kind = "VarDecl"
       THEN [heap |-> [h EXCEPT ![modifier_tail].type = decl],
             head |-> modifier, err |-> NoErr]
       ELSE LET decl_tail == DeclTail(h, decl)
            IN IF decl_tail = Nil
               THEN [heap |-> h, head |-> decl, err |-> "AttributeError"]
               ELSE [heap |-> [h EXCEPT ![modifier_tail].type = h[decl_tail].type,
                                        ![decl_tail].type = modifier],
                     head |-> decl, err |-> NoErr]

(* The chain read from node n through the type links (at most k nodes). *)
RECURSIVE Chain(_, _, _)
Chain(h, n, k) ==
    IF n = Nil \/ k = 0 THEN <<>>
    ELSE <<n>> \o Chain(h, IF HasTypeSlot(h[n].kind) THEN h[n].type ELSE Nil, k - 1)

Modify(node) ==
    /\ err = NoErr
    /\ Len(applied) < MaxMods
    /\ LET h == Append(heap, node)
           r == type_modify_decl(h, head, Len(h))
       IN /\ heap' = r.heap
          /\ head' = r.head
          /\ err' = r.err
          /\ applied' = IF r.err = NoErr THEN Append(applied, Len(h)) ELSE applied
    /\ UNCHANGED <<scope, symtabs, begins, ends, fmap, amap, ret, aux, errs, log, muts,
                   pc, gdecls, drvVars>>

(* direct_declarator : direct_declarator LBRACKET constant_expression RBRACKET *)
direct_declarator_3 == \E d \in Dims : Modify(NewArrayDecl(d))

(* direct_declarator : direct_declarator LPAREN parameter_list RPAREN *)
direct_declarator_4 == Modify(NewFuncDecl)

(* ast.VarDecl.__slots__ *)
VarDeclSlots == {"name", "type", "coord"}

(* ast.Type([name], coord) as a node of the heap *)
NewType(name) == [kind |-> "Type", type |-> Nil, dim |-> None, names |-> <<name>>]

(* The specifier lists handed over as `typename`: none, one Type, one      *)
(* node that is not a Type, and two specifiers.                            *)
SpecifierLists ==
    {<<>>, <<NewType("int")>>, <<LeafNode("ID")>>, <<NewType("int"), LeafNode("ID")>>}

(* the coordinate of the declaration, as _parse_error formats it *)
DeclCoord == "1:1"

(* UCParser._parse_error *)
parse_error(msg, coord) == "ParseError: " \o coord \o ": " \o msg

(* type = decl; while not isinstance(type, ast.VarDecl): type = type.type  *)
(* started below the Decl node.  Nil: reading .type failed.                *)
RECURSIVE DeclLeaf(_, _)
DeclLeaf(h, n) ==
    IF n = Nil THEN Nil
    ELSE IF h[n].kind = "VarDecl" THEN n
    ELSE IF ~HasTypeSlot(h[n].kind) THEN Nil
    ELSE DeclLeaf(h, h[n].type)

(* The body of the `for tn in typename` loop: the first specifier that is  *)
(* not a Type decides; 0 when every specifier is a Type.                   *)
FirstNonType(typename) ==
    IF \E i \in 1..Len(typename) : typename[i].kind # "Type"
    THEN CHOOSE i \in 1..Len(typename) :
            /\ typename[i].kind # "Type"
            /\ \A j \in 1..(i - 1) : typename[j].kind = "Type"
    ELSE 0

(* UCParser._fix_decl_name_type(decl, typename), decl = ast.Decl(None, d,  *)
(* init, coord) for the declarator d.  name: the value left in decl.name.  *)
fix_decl_name_type(h, d, typename) ==
    LET type == DeclLeaf(h, d)
        new  == Len(h) + 1
    IN IF type = Nil \/ "declname" \notin VarDeclSlots
       THEN [heap |-> h, name |-> None, err |-> "AttributeError"]
       ELSE IF FirstNonType(typename) # 0
       THEN IF Len(typename) > 1
            THEN [heap |-> h, name |-> "declname",
                  err |-> parse_error("Invalid multiple types specified", DeclCoord)]
            ELSE [heap |-> [Append(h, typename[1]) EXCEPT ![type].type = new],
                  name |-> "declname", err |-> NoErr]
       ELSE IF typename = <<>>
       THEN IF h[d].kind # "FuncDecl"
            THEN [heap |-> h, name |-> "declname",
                  err |-> parse_error("Missing type in declaration", DeclCoord)]
            ELSE [heap |-> [Append(h, NewType("int")) EXCEPT ![type].type = new],
                  name |-> "declname", err |-> NoErr]
       ELSE (* typename.names on a list *)
            [heap |-> h, name |-> "declname", err |-> "AttributeError"]

(* UCParser._build_declarations, lines 82-89, for one declarator *)
build_declarations ==
    /\ err = NoErr /\ pc = "start"
    /\ \E typename \in SpecifierLists :
          LET r == fix_decl_name_type(heap, head, typename)
          IN /\ heap' = r.heap
             /\ err' = r.err
             /\ ret' = r.name
             /\ arg' = typename
    /\ op' = "_fix_decl_name_type"
    /\ pc' = "fixed"
    /\ UNCHANGED <<scope, symtabs, begins, ends, fmap, amap, aux, errs, log, muts,
                   gdecls, open, puts, nops, head, applied>>

DeclNext == direct_declarator_3 \/ direct_declarator_4

(* A declarator is built and then closed by a declaration. *)
FixNext == direct_declarator_3 \/ direct_declarator_4 \/ build_declarations

(* direct_declarator : identifier yields the ID node itself; the name      *)
(* holder _type_modify_decl expects is a VarDecl.  Both leaves are drawn.  *)
DeclInit ==
    /\ VisitorInit /\ DriverInit
    /\ \E k \in {"VarDecl", "ID"} : heap = <<LeafNode(k)>>
    /\ head = 1 /\ applied = <<>>

SpecDecl == DeclInit /\ [][DeclNext]_vars

SpecFix == DeclInit /\ [][FixNext]_vars

-----------------------------------------------------------------------------
(* AST nodes (ast.py): one constructor per class, the fields its __init__  *)
(* sets.  A list-valued field is a sequence; NoneList stands for a field   *)
(* that holds None where a list is expected.                               *)
NoneList == <<NoneNode>>
IsNoneList(l) == Len(l) = 1 /\ l[1].kind = "NoneType"

ID(name, c) == [kind |-> "ID", name |-> name, coord |-> c]
Constant(type, value, c) == [kind |-> "Constant", type |-> type, value |-> value, coord |-> c]
Type(types, c) == [kind |-> "Type", types |-> types, coord |-> c]
VarDecl(name, type, c) == [kind |-> "VarDecl", name |-> name, type |-> type, coord |-> c]
Decl(name, type, init, c) ==
    [kind |-> "Decl", name |-> name, type |-> type, init |-> init, coord |-> c]
ArrayDecl(type, dim, c) == [kind |-> "ArrayDecl", type |-> type, dim |-> dim, coord |-> c]
FuncDecl(args, type, c) == [kind |-> "FuncDecl", args |-> args, type |-> type, coord |-> c]
FuncDef(decl, param_decls, body, c) ==
    [kind |-> "FuncDef", decl |-> decl, param_decls |-> param_decls, body |-> body,
     coord |-> c]
GlobalDecl(decls, c) == [kind |-> "GlobalDecl", decls |-> decls, coord |-> c]
BinaryOp(o, left, right, c) ==
    [kind |-> "BinaryOp", op |-> o, lvalue |-> left, rvalue |-> right, coord |-> c]
UnaryOp(o, expr, c) == [kind |-> "UnaryOp", op |-> o, expr |-> expr, coord |-> c]
Cast(type, expr, c) == [kind |-> "Cast", type |-> type, expr |-> expr, coord |-> c]
Assignment(o, lvalue, rvalue, c) ==
    [kind |-> "Assignment", op |-> o, lvalue |-> lvalue, rvalue |-> rvalue, coord |-> c]
FuncCall(name, args, c) == [kind |-> "FuncCall", name |-> name, args |-> args, coord |-> c]
ArrayRef(name, subscript, c) ==
    [kind |-> "ArrayRef", name |-> name, subscript |-> subscript, coord |-> c]
ExprList(exprs, c) == [kind |-> "ExprList", exprs |-> exprs, coord |-> c]
InitList(exprs, c) == [kind |-> "InitList", exprs |-> exprs, coord |-> c]
Compound(block_items, c) == [kind |-> "Compound", block_items |-> block_items, coord |-> c]
If(cond, iftrue, iffalse, c) ==
    [kind |-> "If", cond |-> cond, iftrue |-> iftrue, iffalse |-> iffalse, coord |-> c]
While(cond, stmt, c) == [kind |-> "While", cond |-> cond, stmt |-> stmt, coord |-> c]
For(init, cond, next, stmt, c) ==
    [kind |-> "For", init |-> init, cond |-> cond, next |-> next, stmt |-> stmt,
     coord |-> c]
DeclList(decls, c) == [kind |-> "DeclList", decls |-> decls, coord |-> c]
EmptyStatement(c) == [kind |-> "EmptyStatement", coord |-> c]
AssertStmt(expr, c) == [kind |-> "Assert", expr |-> expr, coord |-> c]
PrintStmt(expr, c) == [kind |-> "Print", expr |-> expr, coord |-> c]
Read(expr, c) == [kind |-> "Read", expr |-> expr, coord |-> c]

(* ParamList, Return and Break are named by the Visitor (lines 218, 369,   *)
(* 374, 377) and listed among the node variants of the specification, but  *)
(* ast.py defines no such class.  They are modelled with the fields the    *)
(* visitor reads: ParamList.params, Return.expr.                           *)
ParamList(params, c) == [kind |-> "ParamList", params |-> params, coord |-> c]
Return(expr, c) == [kind |-> "Return", expr |-> expr, coord |-> c]
Break(c) == [kind |-> "Break", coord |-> c]

-----------------------------------------------------------------------------
(* type_table (type_checking.py lines 20-52): the operator sets of a type  *)
ArithTypes == {"int", "float", "char"}

InTypeTable(t) == t \in {"void", "int", "float", "char", "string", "array"}

unary_ops(t) ==
    IF t \in ArithTypes THEN {"-", "+", "--", "++", "p--", "p++", "*", "&"}
    ELSE IF t = "string" THEN {"+", "&"}
    ELSE IF t = "array" THEN {"*", "&"}
    ELSE {}

binary_ops(t) == IF t \in ArithTypes THEN {"+", "-", "*", "/", "%"} ELSE {}

rel_ops(t) ==
    IF t \in ArithTypes THEN {"==", "!=", "<", ">", "<=", ">="}
    ELSE IF t \in {"string", "array"} THEN {"==", "!="}
    ELSE {}

assign_ops(t) == IF t \in ArithTypes THEN {"=", "+=", "-=", "*=", "/=", "%="} ELSE {}

(* Truth value of a str-or-None in `assert x`: None and '' are false. *)
Truthy(v) == v # None /\ v # ""

Ok(st) == st.err = NoErr

-----------------------------------------------------------------------------
(* The type-checking visitor (type_checking.py).  Every visit_* rule takes *)
(* the node and the interpreter state and returns the state after the      *)
(* call: its effects on the symbol table, fmap and amap, the value it      *)
(* returns (ret, aux) or the exception it raises (err).  A raised          *)
(* exception unwinds: no later step of any enclosing rule runs.            *)
RECURSIVE Visit(_, _)

(* for x in xs: self.visit(x) *)
RECURSIVE VisitAll(_, _)
VisitAll(nodes, st) ==
    IF Len(nodes) = 0 \/ ~Ok(st) THEN st
    ELSE VisitAll(Tail(nodes), Visit(Head(nodes), st))

(* NodeVisitor.generic_visit: `for c in node` on a Node or on None, which  *)
(* are not iterable.                                                       *)
generic_visit(node, st) == Raise(st, "TypeError")

(* Visitor.type_from_id_or_const *)
type_from_id_or_const(look, error, st) ==
    IF ~Ok(st) THEN st
    ELSE IF look.kind = "ID"
    THEN LET s == lookup(st, look.name)
         IN IF ~Ok(s) \/ Truthy(s.ret) THEN s ELSE Raise(s, error)
    ELSE IF look.kind = "Constant" THEN Ret(st, look.type)
    ELSE Visit(look, st)

(* Visitor.visit_BinaryOp *)
visit_BinaryOp(node, st) ==
    LET l == type_from_id_or_const(node.lvalue,
                 "BinaryOp error: Left element not defined", st)
        r == type_from_id_or_const(node.rvalue,
                 "BinaryOp error: Right element not defined", l)
    IN IF ~Ok(r) THEN r
       ELSE IF l.ret # r.ret
            THEN Raise(r, "BinaryOp error: Elements type mismatch")
       ELSE IF ~InTypeTable(l.ret) THEN Raise(r, "KeyError")
       ELSE IF node.op \notin (binary_ops(l.ret) \cup rel_ops(l.ret))
            THEN Raise(r, "BinaryOp error: Operator mismatch")
       ELSE Ret(r, l.ret)

(* Visitor.visit_Constant *)
visit_Constant(node, st) == Ret(st, node.type)

(* Visitor.visit_Type (the parser builds every Type with a list of names) *)
visit_Type(node, st) ==
    IF Len(node.types) = 0 THEN Raise(st, "IndexError")
    ELSE Ret(st, node.types[1])

(* Visitor.visit_GlobalDecl *)
visit_GlobalDecl(node, st) ==
    LET s == VisitAll(node.decls, st) IN IF Ok(s) THEN Ret(s, None) ELSE s

(* Visitor.visit_Decl.  For an ArrayDecl the key handed to amap is the     *)
(* value visit_ArrayDecl returns, a node or None, while the keys of amap   *)
(* are names (str).                                                        *)
visit_Decl(node, st) ==
    IF node.type.kind = "NoneType" THEN Ret(st, None)
    ELSE
    LET bound == node.type.kind \in {"ArrayDecl", "FuncDecl", "VarDecl"}
        t == IF bound THEN Visit(node.type, st) ELSE st
        s1 == IF node.type.kind = "ArrayDecl" /\ Ok(t)
              THEN IF t.ret \in DOMAIN t.amap
                   THEN Ret(t, t.amap[t.ret].type)
                   ELSE Raise(t, "KeyError")
              ELSE t
    IN IF ~Ok(s1) THEN s1
       ELSE IF node.init.kind = "NoneType" THEN Ret(s1, None)
       ELSE LET i == Visit(node.init, s1)
            IN IF ~Ok(i) THEN i
               ELSE IF ~bound THEN Raise(i, "UnboundLocalError")
               ELSE IF s1.ret # i.ret
                    THEN Raise(i, "Declaration error: Init type differs from declared type")
               ELSE Ret(i, None)

(* Visitor.visit_FuncDecl *)
visit_FuncDecl(node, st) ==
    LET isVar == node.type.kind = "VarDecl"
        t == IF isVar THEN Visit(node.type, st) ELSE st
        a == IF isVar /\ Ok(t) /\ node.args.kind = "ParamList"
             THEN LET v == Visit(node.args, t)
                  IN IF Ok(v)
                     THEN [v EXCEPT !.fmap = (node.type.name.name :> v.ret) @@ @]
                     ELSE v
             ELSE t
    IN IF ~Ok(a) THEN a
       ELSE IF isVar THEN Ret(begin_scope(a), t.ret)
       ELSE Raise(begin_scope(a), "UnboundLocalError")

(* Visitor.visit_VarDecl *)
visit_VarDecl(node, st) ==
    LET n == Visit(node.name, st)
        t == Visit(node.type, n)
        p == IF Ok(t) THEN put(t, n.ret, t.ret) ELSE t
    IN IF Ok(p) THEN Ret(p, t.ret) ELSE p

(* node.expr.type, as recorded in muts *)
TypeAttr(n) == IF n.kind = "Constant" THEN n.type ELSE NodeVal

(* Visitor.visit_Cast *)
visit_Cast(node, st) ==
    LET e == Visit(node.expr, st)
    IN IF ~Ok(e) THEN e
       ELSE IF ~HasTypeSlot(node.expr.kind) THEN Raise(e, "AttributeError")
       ELSE [Ret(e, None) EXCEPT
                !.muts = Append(@, <<node.coord, "type", TypeAttr(node.expr)>>)]

(* Visitor.visit_UnaryOp *)
visit_UnaryOp(node, st) ==
    LET e == Visit(node.expr, st)
        v == IF Ok(e) THEN lookup(e, e.ret) ELSE e
    IN IF ~Ok(v) THEN v
       ELSE IF ~InTypeTable(v.ret) THEN Raise(v, "KeyError")
       ELSE IF node.op \notin unary_ops(v.ret)
            THEN Raise(v, "Unary operation: operator mismatch")
       ELSE Ret(v, None)

(* Visitor.visit_ExprList *)
visit_ExprList(node, st) ==
    LET s == VisitAll(node.exprs, st) IN IF Ok(s) THEN Ret(s, None) ELSE s

(* Visitor.visit_Assignment *)
visit_Assignment_NoLhsCheck(node, st) ==
    LET l == Visit(node.lvalue, st)
        left == IF Ok(l) THEN lookup(l, l.ret) ELSE l
        rv == Visit(node.rvalue, left)
        right == IF node.rvalue.kind \in {"ID", "ArrayRef"} /\ Ok(rv)
                 THEN lookup(rv, rv.ret) ELSE rv
    IN IF ~Ok(right) THEN right
       ELSE IF left.ret # right.ret
            THEN Raise(right, "Assignment error: Type mismatch")
       ELSE IF ~InTypeTable(left.ret) THEN Raise(right, "KeyError")
       ELSE IF node.op \notin assign_ops(left.ret)
            THEN Raise(right, "Assignment error: operation mismatch")
       ELSE Ret(right, None)

visit_Assignment(node, st) ==
    LET l == Visit(node.lvalue, st)
        left == IF Ok(l) THEN lookup(l, l.ret) ELSE l
    IN IF ~Ok(left) THEN left
       ELSE IF ~Truthy(left.ret)
            THEN Raise(left, "Assignment error: undefined element")
       ELSE
       LET rv == Visit(node.rvalue, left)
           right == IF node.rvalue.kind \in {"ID", "ArrayRef"} /\ Ok(rv)
                    THEN lookup(rv, rv.ret) ELSE rv
       IN IF ~Ok(right) THEN right
          ELSE IF left.ret # right.ret
               THEN Raise(right, "Assignment error: Type mismatch")
          ELSE IF ~InTypeTable(left.ret) THEN Raise(right, "KeyError")
          ELSE IF node.op \notin assign_ops(left.ret)
               THEN Raise(right, "Assignment error: operation mismatch")
          ELSE Ret(right, None)

(* Visitor.visit_FuncDef *)
visit_FuncDef(node, st) ==
    LET d == IF node.decl.kind # "NoneType" THEN Visit(node.decl, st) ELSE st
        p == VisitAll(node.param_decls, d)
        b == Visit(node.body, p)
    IN IF Ok(b) THEN end_scope(b) ELSE b

(* Visitor.visit_FuncCall *)
visit_FuncCall(node, st) ==
    LET n == Visit(node.name, st)
    IN IF ~Ok(n) THEN n
       ELSE IF n.ret \notin DOMAIN n.fmap
            THEN Raise(n, "Function Call error: function not declared")
       ELSE LET a == IF node.args.kind = "ID" THEN Visit(node.args, n) ELSE n
                m == Visit(node.name, a)
            IN IF Ok(m) THEN lookup(m, m.ret) ELSE m

(* Visitor.visit_ID *)
visit_ID(node, st) == Ret(st, node.name)

(* node.dim.value if node.dim is not None and isinstance(node.dim, Constant) *)
DimValue(node) == IF node.dim.kind = "Constant" THEN node.dim.value ELSE None

(* Visitor.visit_ArrayDecl: returns the ID node of the declared name, or   *)
(* None when node.type is neither a VarDecl nor an ArrayDecl.              *)
visit_ArrayDecl(node, st) ==
    IF node.type.kind = "VarDecl"
    THEN LET t == Visit(node.type, st)
             array_type == IF t.ret = "char" THEN "string" ELSE "array"
             name == node.type.name
             n1 == Visit(name, t)
             p == IF Ok(n1) THEN put(n1, n1.ret, array_type) ELSE n1
             n2 == Visit(name, p)
         IN IF ~Ok(n2) THEN n2
            ELSE [n2 EXCEPT
                    !.amap = (n2.ret :> [type |-> array_type,
                                         dims |-> <<DimValue(node)>>]) @@ @,
                    !.ret = NodeVal, !.aux = name]
    ELSE IF node.type.kind = "ArrayDecl"
    THEN LET t == Visit(node.type, st)
             name == t.aux
             n1 == Visit(name, t)
         IN IF ~Ok(n1) THEN n1
            ELSE IF n1.ret \notin DOMAIN n1.amap THEN Raise(n1, "KeyError")
            ELSE LET array_type == n1.amap[n1.ret].type
                     v == IF array_type = "string" THEN Visit(name, n1) ELSE n1
                     n2 == IF array_type = "string" /\ Ok(v)
                           THEN put(v, v.ret, "array") ELSE v
                     n3 == Visit(name, n2)
                 IN IF ~Ok(n3) THEN n3
                    ELSE [n3 EXCEPT
                            !.amap[n3.ret].dims = Append(@, DimValue(node)),
                            !.ret = NodeVal, !.aux = name]
    ELSE Ret(st, None)

(* Visitor.visit_ArrayRef *)
visit_ArrayRef(node, st) ==
    LET n == Visit(node.name, st)
        a == IF Ok(n) THEN lookup(n, n.ret) ELSE n
    IN IF ~Ok(a) THEN a
       ELSE IF ~Truthy(a.ret)
            THEN Raise(a, "Array Refence error: Array not declared")
       ELSE IF a.ret = "string" THEN Ret(a, "char")
       ELSE LET checked == node.subscript.kind \in {"ArrayRef", "ID", "Constant"}
                v == IF checked THEN Visit(node.subscript, a) ELSE a
                c == IF node.subscript.kind = "ID" /\ Ok(v)
                     THEN lookup(v, v.ret) ELSE v
                k == IF checked /\ Ok(c) /\ c.ret # "int"
                     THEN Raise(c, "Array Refence error: Index not integer")
                     ELSE c
            IN Visit(node.name, k)

(* Visitor.visit_Compound *)
visit_Compound(node, st) ==
    LET s == VisitAll(node.block_items, st) IN IF Ok(s) THEN Ret(s, None) ELSE s

(* Visitor.visit_If *)
visit_If(node, st) ==
    LET c == Visit(node.cond, st)
        t == Visit(node.iftrue, c)
        f == IF node.iffalse.kind # "NoneType" THEN Visit(node.iffalse, t) ELSE t
    IN IF Ok(f) THEN Ret(f, None) ELSE f

(* Visitor.visit_While *)
visit_While(node, st) ==
    LET s == Visit(node.stmt, Visit(node.cond, st))
    IN IF Ok(s) THEN Ret(s, None) ELSE s

(* Visitor.visit_For *)
visit_For(node, st) ==
    LET s == Visit(node.stmt,
                Visit(node.next,
                  Visit(node.cond,
                    Visit(node.init, begin_scope(st)))))
    IN IF Ok(s) THEN end_scope(s) ELSE s

(* Visitor.visit_DeclList *)
visit_DeclList(node, st) ==
    LET s == VisitAll(node.decls, st) IN IF Ok(s) THEN Ret(s, None) ELSE s

(* Visitor.visit_EmptyStatement *)
visit_EmptyStatement(node, st) == Ret(st, None)

(* Visitor.visit_Assert, visit_Print, visit_Read, visit_Return *)
visit_Assert(node, st) ==
    LET s == Visit(node.expr, st) IN IF Ok(s) THEN Ret(s, None) ELSE s

VisitOptExpr(node, st) ==
    LET s == IF node.expr.kind # "NoneType" THEN Visit(node.expr, st) ELSE st
    IN IF Ok(s) THEN Ret(s, None) ELSE s

visit_Print(node, st) == VisitOptExpr(node, st)

visit_Read(node, st) == VisitOptExpr(node, st)

visit_Return(node, st) == VisitOptExpr(node, st)

(* Visitor.visit_Break *)
visit_Break(node, st) == Ret(st, None)

(* Visitor.visit_InitList *)
RECURSIVE InitListLoop(_, _, _)
InitListLoop(exprs, consistency, st) ==
    IF Len(exprs) = 0 \/ ~Ok(st) THEN st
    ELSE LET v == type_from_id_or_const(Head(exprs),
                      "InitList error: Element not defined", st)
         IN IF ~Ok(v) THEN v
            ELSE IF consistency # v.ret
                 THEN Raise(v, "InitList error: Type consistency")
            ELSE InitListLoop(Tail(exprs), consistency, v)

visit_InitList(node, st) ==
    IF IsNoneList(node.exprs) THEN Ret(st, None)
    ELSE IF Len(node.exprs) = 0 THEN Raise(st, "IndexError")
    ELSE LET c == type_from_id_or_const(node.exprs[1],
                      "InitList error: Element not defined", st)
             l == InitListLoop(node.exprs, c.ret, c)
         IN IF Ok(l) THEN Ret(l, c.ret) ELSE l

(* Visitor.visit_ParamList: returns node.params, a list *)
visit_ParamList(node, st) ==
    LET s == VisitAll(node.params, st) IN IF Ok(s) THEN Ret(s, ListVal) ELSE s

(* Visitor.visit_Program *)
visit_Program(node, st) ==
    LET b == begin_scope(st)
        s == IF IsNoneList(node.gdecls) THEN b ELSE VisitAll(node.gdecls, b)
    IN IF Ok(s) THEN end_scope(s) ELSE s

(* NodeVisitor.visit: dispatch on the class name of the node *)
Dispatch(node, s) ==
    LET k == node.kind
    IN CASE k = "Program"        -> visit_Program(node, s)
         [] k = "BinaryOp"       -> visit_BinaryOp(node, s)
         [] k = "Constant"       -> visit_Constant(node, s)
         [] k = "Type"           -> visit_Type(node, s)
         [] k = "GlobalDecl"     -> visit_GlobalDecl(node, s)
         [] k = "Decl"           -> visit_Decl(node, s)
         [] k = "FuncDecl"       -> visit_FuncDecl(node, s)
         [] k = "VarDecl"        -> visit_VarDecl(node, s)
         [] k = "Cast"           -> visit_Cast(node, s)
         [] k = "UnaryOp"        -> visit_UnaryOp(node, s)
         [] k = "ExprList"       -> visit_ExprList(node, s)
         [] k = "Assignment"     -> visit_Assignment(node, s)
         [] k = "FuncDef"        -> visit_FuncDef(node, s)
         [] k = "FuncCall"       -> visit_FuncCall(node, s)
         [] k = "ID"             -> visit_ID(node, s)
         [] k = "ArrayDecl"      -> visit_ArrayDecl(node, s)
         [] k = "ArrayRef"       -> visit_ArrayRef(node, s)
         [] k = "Compound"       -> visit_Compound(node, s)
         [] k = "If"             -> visit_If(node, s)
         [] k = "While"          -> visit_While(node, s)
         [] k = "For"            -> visit_For(node, s)
         [] k = "DeclList"       -> visit_DeclList(node, s)
         [] k = "EmptyStatement" -> visit_EmptyStatement(node, s)
         [] k = "Assert"         -> visit_Assert(node, s)
         [] k = "Print"          -> visit_Print(node, s)
         [] k = "Read"           -> visit_Read(node, s)
         [] k = "InitList"       -> visit_InitList(node, s)
         [] k = "ParamList"      -> visit_ParamList(node, s)
         [] k = "Break"          -> visit_Break(node, s)
         [] k = "Return"         -> visit_Return(node, s)
         [] OTHER                -> generic_visit(node, s)

(* NodeVisitor.visit.  An exception raised earlier in the enclosing rule   *)
(* has unwound past this call: the call is not made.                       *)
Visit_KeepGoing(node, st) ==
    Dispatch(node, [st EXCEPT !.log = Append(@, <<node.kind, node.coord>>)])

Visit(node, st) ==
    IF ~Ok(st) THEN st
    ELSE Dispatch(node, [st EXCEPT !.log = Append(@, <<node.kind, node.coord>>)])

-----------------------------------------------------------------------------
(* The programs checked (Spec).  Program.gdecls is drawn item by item from *)
(* the declarations and statements below.  Declarations have the shape the *)
(* parser gives them (GlobalDecl of Decl, FuncDef); statements stand at    *)
(* top level, after the declarations, as in the scenarios of the           *)
(* specification (`int x; x = 5;`).                                        *)
(* The coord of a node is unique within its item.                          *)
IntT(c)   == Type(<<"int">>, c)

(* T n; *)
VarD(t, n, c) == Decl(ID(n, c), VarDecl(ID(n, c + 1), Type(<<t>>, c + 2), c + 3), NoneNode, c + 4)

(* T f(params)  -- the declarator of a function, as _type_modify_decl builds it *)
FuncD(t, f, args, c) ==
    Decl(ID(f, c), FuncDecl(args, VarDecl(ID(f, c + 1), Type(<<t>>, c + 2), c + 3), c + 4),
         NoneNode, c + 5)

(* the expressions used as operands, right-hand sides and statements *)
Expr(tag, c) ==
    CASE tag = "x"        -> ID("x", c)
      [] tag = "v"        -> ID("v", c)
      [] tag = "1"        -> Constant("int", "1", c)
      [] tag = "1.0"      -> Constant("float", "1.0", c)
      [] tag = "1+1"      -> BinaryOp("+", Constant("int", "1", c + 1),
                                           Constant("int", "1", c + 2), c)
      [] tag = "-x"       -> UnaryOp("-", ID("x", c + 1), c)
      [] tag = "-1"       -> UnaryOp("-", Constant("int", "1", c + 1), c)
      [] tag = "(int)1.0" -> Cast(IntT(c + 1), Constant("float", "1.0", c + 2), c)
      [] tag = "a[0]"     -> ArrayRef(ID("a", c + 1), Constant("int", "0", c + 2), c)
      [] tag = "f()"      -> FuncCall(ID("f", c + 1), NoneNode, c)
      [] tag = "g(2)"     -> FuncCall(ID("g", c + 1), Constant("int", "2", c + 2), c)
      [] tag = "k(2)"     -> FuncCall(ID("k", c + 1), Constant("int", "2", c + 2), c)

OperandTags == {"x", "1", "1.0", "1+1", "-x", "(int)1.0"}
RhsTags     == OperandTags \cup {"v", "a[0]", "f()", "g(2)", "k(2)"}

(* int x;   void v; *)
DeclX == GlobalDecl(<<VarD("int", "x", 1)>>, 1)
DeclV == GlobalDecl(<<VarD("void", "v", 1)>>, 1)

(* int a[3]; *)
DeclA ==
    GlobalDecl(<<Decl(ID("a", 1),
                      ArrayDecl(VarDecl(ID("a", 2), IntT(3), 4),
                                Constant("int", "3", 5), 6),
                      NoneNode, 7)>>, 1)

(* int f();  -- a function declaration without a body *)
ProtoF == GlobalDecl(<<FuncD("int", "f", NoneNode, 1)>>, 1)

(* int f() { return 1; } *)
DefF ==
    FuncDef(FuncD("int", "f", NoneNode, 1), <<>>,
            Compound(<<Return(Constant("int", "1", 11), 10)>>, 9), 8)

(* int g(int n) { int t; return n; } *)
DefG ==
    FuncDef(FuncD("int", "g", ParamList(<<VarD("int", "n", 20)>>, 19), 1), <<>>,
            Compound(<<VarD("int", "t", 30), Return(ID("n", 11), 10)>>, 9), 8)

(* int e() { u = 1; int t; }  -- u is declared nowhere *)
DefE ==
    FuncDef(FuncD("int", "e", NoneNode, 1), <<>>,
            Compound(<<Assignment("=", ID("u", 11), Constant("int", "1", 12), 10),
                       VarD("int", "t", 30)>>, 9), 8)

(* void q() { for (;;) ; }  -- a for-loop without initializer, condition and next *)
DefQ ==
    FuncDef(FuncD("void", "q", NoneNode, 1), <<>>,
            Compound(<<For(NoneNode, NoneNode, NoneNode, EmptyStatement(22), 10)>>, 9), 8)

(* void p() { for (int i = 0; i < 1; i = i + 1) ; } *)
DefP ==
    FuncDef(FuncD("void", "p", NoneNode, 1), <<>>,
            Compound(<<For(DeclList(<<Decl(ID("i", 30),
                                           VarDecl(ID("i", 31), IntT(32), 33),
                                           Constant("int", "0", 34), 35)>>, 36),
                           BinaryOp("<", ID("i", 14), Constant("int", "1", 15), 16),
                           Assignment("=", ID("i", 17),
                                      BinaryOp("+", ID("i", 18), Constant("int", "1", 19), 20),
                                      21),
                           EmptyStatement(22), 10)>>, 9), 8)

DeclItems == {DeclX, DeclV, DeclA, ProtoF, DefF, DefG, DefE, DefP, DefQ}

(* l = r;  for l among x, v and the undeclared u;  x += 1;  v += v;  a[0] = 1; *)
AssignItems ==
    {Assignment("=", ID(l, 1), Expr(r, 10), 2) : l \in {"x", "v", "u"}, r \in RhsTags}
    \cup {Assignment("+=", ID("x", 1), Expr("1", 10), 2),
          Assignment("+=", ID("v", 1), Expr("v", 10), 2),
          Assignment("=", Expr("a[0]", 1), Expr("1", 10), 5)}

BinaryItems ==
    {BinaryOp(o, Expr(l, 10), Expr(r, 20), 1) :
        o \in {"+", "<", "&&"}, l \in OperandTags, r \in {"x", "1", "1.0"}}

ExprItems == {Expr(t, 1) : t \in {"f()", "g(2)", "k(2)", "a[0]", "-x", "-1", "(int)1.0"}}

StmtItems == AssignItems \cup BinaryItems \cup ExprItems

IsDeclItem(n) == n.kind \in {"GlobalDecl", "FuncDef"}

NDecls == Cardinality({i \in 1..Len(gdecls) : IsDeclItem(gdecls[i])})
NStmts == Len(gdecls) - NDecls

(* visit_Program, line 172: self.symtab.begin_scope() *)
ProgramBegin ==
    /\ pc = "start"
    /\ SetSt(begin_scope([CurSt EXCEPT !.log = Append(@, <<"Program", 0>>)]))
    /\ pc' = "gdecls"
    /\ UNCHANGED <<gdecls, drvVars, declVars>>

(* visit_Program, lines 174-175: self.visit(_decl) for the next item *)
VisitItem(item) ==
    /\ pc = "gdecls"
    /\ LET s == Visit(item, CurSt)
       IN /\ SetSt(s)
          /\ pc' = IF Ok(s) THEN "gdecls" ELSE "raised"
    /\ gdecls' = Append(gdecls, item)
    /\ UNCHANGED <<drvVars, declVars>>

VisitDecl == NDecls < MaxDecls /\ NStmts = 0 /\ \E item \in DeclItems : VisitItem(item)

VisitStmt == NStmts < MaxStmts /\ \E item \in StmtItems : VisitItem(item)

(* visit_Program, line 176: self.symtab.end_scope() after the last item *)
ProgramEnd ==
    /\ pc = "gdecls"
    /\ LET s == end_scope(CurSt)
       IN /\ SetSt(s)
          /\ pc' = IF Ok(s) THEN "done" ELSE "raised"
    /\ UNCHANGED <<gdecls, drvVars, declVars>>

Init == VisitorInit /\ DriverInit /\ heap = <<>> /\ head = 0 /\ applied = <<>>

Next == ProgramBegin \/ VisitDecl \/ VisitStmt \/ ProgramEnd

Spec == Init /\ [][Next]_vars

-----------------------------------------------------------------------------
(* SpecNode: the rules of the Visitor applied to single nodes, the way the *)
(* enclosing rules apply them through self.visit.  A scope is opened (as   *)
(* visit_Program does), some declarators are visited to bind names, and    *)
(* then one node is visited.  An array declarator is visited on its own,   *)
(* as visit_Decl line 205 visits it: visit_ArrayDecl binds the name before *)
(* visit_Decl goes on.                                                     *)

(* T n[d]  -- the declarator of a one-dimensional array *)
Arr1(t, n, d, c) == ArrayDecl(VarDecl(ID(n, c), Type(<<t>>, c + 1), c + 2), d, c + 3)

(* T n[d1][d2]  -- _type_modify_decl puts the modifier read first outermost *)
Arr2(t, n, d1, d2, c) == ArrayDecl(Arr1(t, n, d2, c), d1, c + 4)

(* a dimension: the constant 5 or 10, the identifier x, or absent *)
DimExpr(d, c) ==
    CASE d = "5"  -> Constant("int", "5", c)
      [] d = "10" -> Constant("int", "10", c)
      [] d = "x"  -> ID("x", c)
      [] OTHER    -> NoneNode

(* int x;  float z;  int a[3];  char s[3]; *)
EnvItems ==
    {VarD("int", "x", 1), VarD("float", "z", 1),
     Arr1("int", "a", Constant("int", "3", 9), 1),
     Arr1("char", "s", Constant("int", "3", 9), 1)}

(* { { int t; } t = 1; } *)
BlockItem ==
    Compound(<<Compound(<<VarD("int", "t", 30)>>, 2),
               Assignment("=", ID("t", 11), Constant("int", "1", 12), 10)>>, 1)

(* int y = init; *)
InitExpr(tag, c) ==
    CASE tag = "z"   -> ID("z", c)
      [] tag = "x+1" -> BinaryOp("+", ID("x", c + 1), Constant("int", "1", c + 2), c)
      [] OTHER       -> Expr(tag, c)

InitTags == {"1", "1.0", "x", "z", "1+1", "x+1", "-x"}

DeclInitItems ==
    {Decl(ID("y", 1), VarDecl(ID("y", 2), IntT(3), 4), InitExpr(i, 10), 5) : i \in InitTags}

(* int m[d1][d2];  int m[d]; *)
DimTags == {"5", "10", "x", None}

ArrayDeclItems ==
    {Decl(ID("m", 20), Arr2("int", "m", DimExpr(d1, 10), DimExpr(d2, 9), 1), NoneNode, 21) :
        d1 \in DimTags, d2 \in DimTags}
    \cup {Decl(ID("m", 20), Arr1("int", "m", DimExpr(d, 9), 1), NoneNode, 21) : d \in DimTags}

(* b[i]  for a base b and a subscript i *)
SubExpr(tag, c) ==
    CASE tag = "0"       -> Constant("int", "0", c)
      [] tag = "1.0+1.0" -> BinaryOp("+", Constant("float", "1.0", c + 1),
                                          Constant("float", "1.0", c + 2), c)
      [] tag = "z"       -> ID("z", c)
      [] OTHER           -> Expr(tag, c)

SubTags == {"0", "1.0", "x", "z", "a[0]", "1+1", "1.0+1.0"}

ArrayRefItems ==
    {ArrayRef(ID(b, 2), SubExpr(i, 10), 1) : b \in {"a", "s", "u"}, i \in SubTags}

(* { e1, ..., ek }  for k up to 3, and the empty { } *)
ElemTags == {"1", "1.0", "x"}

InitListItems ==
    {InitList(<<>>, 1)}
    \cup {InitList(<<Expr(e1, 10)>>, 1) : e1 \in ElemTags}
    \cup {InitList(<<Expr(e1, 10), Expr(e2, 20)>>, 1) : e1 \in ElemTags, e2 \in ElemTags}
    \cup {InitList(<<Expr("1", 10), Expr(e2, 20), Expr(e3, 30)>>, 1) :
            e2 \in ElemTags, e3 \in ElemTags}

NodeItems ==
    {BlockItem} \cup DeclInitItems \cup ArrayDeclItems \cup ArrayRefItems \cup InitListItems

(* self.symtab.begin_scope(), as at line 172 *)
NodeBegin ==
    /\ pc = "start"
    /\ SetSt(begin_scope(CurSt))
    /\ pc' = "env"
    /\ UNCHANGED <<gdecls, drvVars, declVars>>

(* self.visit(node) of one node in the table built so far *)
NodeCall(node, next) ==
    /\ pc = "env"
    /\ LET s == Visit(node, CurSt)
       IN /\ SetSt(s)
          /\ pc' = IF Ok(s) THEN next ELSE "raised"
    /\ gdecls' = Append(gdecls, node)
    /\ UNCHANGED <<drvVars, declVars>>

NodeDeclare == Len(gdecls) < MaxEnv /\ \E d \in EnvItems : NodeCall(d, "env")

NodeVisit == pc = "env" /\ \E n \in NodeItems : NodeCall(n, "visited")

NodeNext == NodeBegin \/ NodeDeclare \/ NodeVisit

SpecNode == Init /\ [][NodeNext]_vars


-----------------------------------------------------------------------------
(* SpecList: the parser reducing `e1, e2, ...` as an expression or as the  *)
(* arguments of a call.  aux holds p[0], the semantic value of the list    *)
(* parsed so far; applied holds the items in source order; heap holds the  *)
(* ExprList objects concat_exprs created or extended.                      *)

(* the items of the list *)
ListItems == {ID("a", 1), ID("b", 2), ID("c", 3), Constant("int", "1", 4)}

(* ExprList.concat_exprs(expr_base, expr).  obj: the ExprList the call     *)
(* built or extended; ret: the value returned (the method has no return    *)
(* statement).                                                             *)
concat_exprs(expr_base, expr) ==
    IF expr_base.kind # "ExprList"
    THEN IF expr_base = NoneNode
         THEN [obj |-> NoneNode, ret |-> NoneNode, err |-> "AttributeError"]
         ELSE [obj |-> ExprList(<<expr_base, expr>>, expr_base.coord),
               ret |-> NoneNode, err |-> NoErr]
    ELSE [obj |-> [expr_base EXCEPT !.exprs = Append(@, expr)],
          ret |-> NoneNode, err |-> NoErr]

(* len(p) == 2: p[0] = p[1] *)
ListFirst(rule) ==
    /\ pc = "start"
    /\ \E item \in ListItems : aux' = item /\ applied' = <<item>>
    /\ op' = rule /\ pc' = "list"
    /\ UNCHANGED <<scope, symtabs, begins, ends, fmap, amap, ret, err, errs, log, muts,
                   gdecls, arg, open, puts, nops, heap, head>>

(* p[0] = ast.ExprList.concat_exprs(p[1], p[3]) *)
ListComma(rule) ==
    /\ pc = "list" /\ op = rule /\ err = NoErr
    /\ Len(applied) < MaxItems
    /\ \E item \in ListItems :
          LET r == concat_exprs(aux, item)
          IN /\ aux' = r.ret
             /\ err' = r.err
             /\ heap' = IF r.err = NoErr THEN Append(heap, r.obj) ELSE heap
             /\ applied' = Append(applied, item)
    /\ UNCHANGED <<scope, symtabs, begins, ends, fmap, amap, ret, errs, log, muts,
                   pc, gdecls, drvVars, head>>

(* expression : assignment_expression *)
expression_1 == pc = "start" /\ ListFirst("expression")

(* expression : expression COMMA assignment_expression *)
expression_2 == pc = "list" /\ ListComma("expression")

(* argument_expression : assignment_expression *)
argument_expression_1 == pc = "start" /\ ListFirst("argument_expression")

(* argument_expression : argument_expression COMMA assignment_expression *)
argument_expression_2 == pc = "list" /\ ListComma("argument_expression")

ListNext ==
    expression_1 \/ expression_2 \/ argument_expression_1 \/ argument_expression_2

SpecList == Init /\ [][ListNext]_vars

-----------------------------------------------------------------------------
(* Claims about the declarator composition (SpecDecl)                      *)

(* C3: modifiers m1..mk applied left to right by _type_modify_decl to a    *)
(* declarator whose leaf is a VarDecl give the chain m1, m2, ..., mk, leaf *)
(* when read from the returned head through the type links.                *)
C3_DeclaratorSourceOrder ==
    heap[1].kind = "VarDecl" =>
        /\ err = NoErr
        /\ Chain(heap, head, Len(heap) + 1) = applied \o <<1>>

(* a[5][10]: ArrayDecl(5) -> ArrayDecl(10) -> VarDecl(a) *)
C3_Witness ==
    /\ heap[1].kind = "VarDecl"
    /\ Len(applied) = 2
    /\ heap[applied[1]].kind = "ArrayDecl" /\ heap[applied[1]].dim = "5"
    /\ heap[applied[2]].kind = "ArrayDecl" /\ heap[applied[2]].dim = "10"
    /\ head = applied[1]
    /\ heap[applied[1]].type = applied[2]
    /\ heap[applied[2]].type = 1

-----------------------------------------------------------------------------
(* Claims about the SymbolTable (SpecSym)                                  *)

(* The puts made in a frame that is still open, for name a. *)
OpenPuts(a) ==
    {i \in 1..Len(puts) :
        puts[i].name = a /\ \E d \in 1..Len(open) : open[d] = puts[i].frame}

DepthOf(f) == CHOOSE d \in 1..Len(open) : open[d] = f

(* The value of the most recent put of a in the innermost open frame that  *)
(* binds a; None when no open frame binds it.                              *)
RefLookup(a) ==
    IF OpenPuts(a) = {} THEN None
    ELSE LET best == CHOOSE i \in OpenPuts(a) : \A j \in OpenPuts(a) :
                        \/ DepthOf(puts[j].frame) < DepthOf(puts[i].frame)
                        \/ DepthOf(puts[j].frame) = DepthOf(puts[i].frame) /\ j <= i
         IN puts[best].value

(* C4: lookup(name) returns the value of the most recent put made in the   *)
(* innermost still-open frame binding name, and None when no open frame    *)
(* binds it.                                                               *)
C4_LookupInnermostBinding ==
    /\ op = "lookup" => err = NoErr /\ ret = RefLookup(arg)
    /\ \A a \in Names : lookup(CurSt, a).ret = RefLookup(a)

(* lookup returned the inner binding of a name the outermost frame binds   *)
(* to another value.                                                       *)
C4_Witness ==
    /\ op = "lookup" /\ Len(open) >= 2
    /\ \E i, j \in OpenPuts(arg) :
          /\ puts[i].frame = open[1]
          /\ puts[j].frame = open[Len(open)]
          /\ puts[i].value # puts[j].value
          /\ ret = puts[j].value

(* C5: end_scope with no scope open raises and leaves scope = -1 and       *)
(* symtabs empty, the state of a fresh table.                              *)
C5_EndScopeOnEmptyRaises ==
    [][(op' = "end_scope" /\ scope = -1 /\ symtabs = <<>>) =>
          /\ err' = "IndexError"
          /\ scope' = NewSymbolTable.scope
          /\ symtabs' = NewSymbolTable.symtabs]_vars

(* end_scope raised on a table that had been used and emptied before. *)
C5_Witness ==
    /\ op = "end_scope" /\ err = "IndexError"
    /\ begins >= 1 /\ ends = begins
    /\ scope = -1 /\ symtabs = <<>>
-----------------------------------------------------------------------------
(* Claims about the checking of a program (Spec)                          *)

(* the item the step visits, when the step visits one *)
LastItem == gdecls[Len(gdecls)]
VisitsItem == pc = "gdecls" /\ Len(gdecls') = Len(gdecls) + 1

(* the declaration of a function that an item makes, if it makes one *)
IsFuncItem(n) ==
    \/ n.kind = "FuncDef"
    \/ n.kind = "GlobalDecl" /\ n.decls[1].type.kind = "FuncDecl"
FuncItemDecl(n) == IF n.kind = "FuncDef" THEN n.decl ELSE n.decls[1]
DeclaredFunctions ==
    {FuncItemDecl(gdecls[i]) : i \in {j \in 1..Len(gdecls) : IsFuncItem(gdecls[j])}}

(* the type an expression denotes, as the specification resolves it *)
RECURSIVE RefType(_, _)
RefType(e, st) ==
    CASE e.kind = "Constant" -> e.type
      [] e.kind = "ID"       -> lookup(st, e.name).ret
      [] e.kind = "UnaryOp"  -> RefType(e.expr, st)
      [] e.kind = "Cast"     -> e.type.types[1]
      [] e.kind = "BinaryOp" ->
            IF RefType(e.lvalue, st) = RefType(e.rvalue, st)
            THEN RefType(e.lvalue, st) ELSE None
      [] e.kind = "FuncCall" ->
            IF \E d \in DeclaredFunctions : d.name.name = e.name.name
            THEN lookup(st, e.name.name).ret ELSE None
      [] e.kind = "ArrayRef" ->
            IF \E i \in 1..Len(gdecls) :
                  /\ gdecls[i] \in {DeclA, Arr1("int", "a", Constant("int", "3", 9), 1)}
                  /\ e.name.name = "a"
            THEN "int" ELSE None
      [] OTHER -> None

(* C1: when the check of a program made of declarations, function          *)
(* declarations without a body, function definitions and for-loops         *)
(* completes, begin_scope and end_scope were called equally often and the  *)
(* scope stack is empty (scope = -1, symtabs = []).                        *)
C1_ScopesBalanced ==
    (pc = "done" /\ \A i \in 1..Len(gdecls) : IsDeclItem(gdecls[i]))
        => (begins = ends /\ scope = -1 /\ symtabs = <<>>)

(* the names a function definition declares as parameters and locals *)
FuncNames(def) ==
    LET args == def.decl.type.args
        body == def.body.block_items
    IN (IF args.kind = "ParamList"
        THEN {args.params[i].name.name : i \in 1..Len(args.params)} ELSE {})
       \cup {def.param_decls[i].name.name : i \in 1..Len(def.param_decls)}
       \cup {body[i].name.name : i \in {j \in 1..Len(body) : body[j].kind = "Decl"}}

(* C2: after a function definition has been checked, lookup of one of its  *)
(* parameter or local names that no enclosing scope declares reports       *)
(* not-found (None).                                                       *)
C2_Step ==
    (VisitsItem /\ gdecls'[Len(gdecls')].kind = "FuncDef" /\ pc' = "gdecls")
        => \A n \in FuncNames(gdecls'[Len(gdecls')]) :
              lookup(CurSt, n).ret = None => lookup(CurSt', n).ret = None
C2_FunctionNamesDiscarded == [][C2_Step]_vars

(* C6: checking an Assignment whose left-hand side is an identifier bound  *)
(* in no open scope raises "Assignment error: undefined element" having    *)
(* visited only the Assignment and its left-hand side, and leaves the      *)
(* symbol table as it was.                                                 *)
C6_Step ==
    LET a == gdecls'[Len(gdecls')]
    IN (/\ VisitsItem
        /\ a.kind = "Assignment" /\ a.lvalue.kind = "ID"
        /\ lookup(CurSt, a.lvalue.name).ret = None)
        => /\ err' = "Assignment error: undefined element"
           /\ pc' = "raised"
           /\ log' = log \o <<<<"Assignment", a.coord>>, <<"ID", a.lvalue.coord>>>>
           /\ symtabs' = symtabs /\ scope' = scope
           /\ begins' = begins /\ ends' = ends
C6_UndefinedLhsRaisesFirst == [][C6_Step]_vars

C6_Witness ==
    /\ pc = "raised" /\ err = "Assignment error: undefined element"
    /\ Len(gdecls) = 2 /\ gdecls[1] = DeclX
    /\ LastItem.kind = "Assignment" /\ LastItem.lvalue.name = "u"
    /\ LastItem.rvalue.kind = "FuncCall"
    /\ symtabs = <<("x" :> "int")>>

(* C7: an Assignment whose left-hand side is bound to T and whose          *)
(* right-hand side resolves to U fails with "Type mismatch" when T # U,    *)
(* with "operation mismatch" when T = U and the operator is not one of     *)
(* T's assignment operators, and succeeds otherwise.                       *)
AssignmentOutcome(T, U, o) ==
    IF T # U THEN "Assignment error: Type mismatch"
    ELSE IF o \notin assign_ops(T) THEN "Assignment error: operation mismatch"
    ELSE NoErr
C7_Step ==
    LET a == gdecls'[Len(gdecls')]
    IN (/\ VisitsItem
        /\ a.kind = "Assignment" /\ a.lvalue.kind = "ID"
        /\ Truthy(lookup(CurSt, a.lvalue.name).ret)
        /\ Truthy(RefType(a.rvalue, CurSt)))
        => err' = AssignmentOutcome(lookup(CurSt, a.lvalue.name).ret,
                                    RefType(a.rvalue, CurSt), a.op)
C7_AssignmentOutcome == [][C7_Step]_vars

(* C8: for `int a[3]; a[0] = 1;` the declaration is accepted and the       *)
(* assignment to a[0], which resolves to int, succeeds.                    *)
C8_ArrayElementResolves ==
    /\ (Len(gdecls) >= 1 /\ LastItem = DeclA) => err = NoErr
    /\ (/\ Len(gdecls) >= 2 /\ gdecls[Len(gdecls) - 1] = DeclA
        /\ LastItem = Assignment("=", Expr("a[0]", 1), Expr("1", 10), 5))
        => err = NoErr

(* C9: a BinaryOp whose operands resolve to L and R fails with "Elements   *)
(* type mismatch" if L # R, else with "Operator mismatch" if the operator  *)
(* is neither a binary nor a relational operator of L, else succeeds with  *)
(* result type L.                                                          *)
C9_Step ==
    LET b == gdecls'[Len(gdecls')]
        L == RefType(b.lvalue, CurSt)
        R == RefType(b.rvalue, CurSt)
    IN (VisitsItem /\ b.kind = "BinaryOp" /\ Truthy(L) /\ Truthy(R))
        => IF L # R THEN err' = "BinaryOp error: Elements type mismatch"
           ELSE IF b.op \notin binary_ops(L) \cup rel_ops(L)
                THEN err' = "BinaryOp error: Operator mismatch"
           ELSE err' = NoErr /\ ret' = L
C9_BinaryOpOutcome == [][C9_Step]_vars

(* C10: a FuncCall raises "Function Call error: function not declared"     *)
(* exactly when no earlier function declaration or definition declared     *)
(* its callee; a call of a declared function, with or without parameters,  *)
(* resolves to the declared return type.                                   *)
C10_Step ==
    LET c == gdecls'[Len(gdecls')]
        ds == {d \in DeclaredFunctions : d.name.name = c.name.name}
    IN (VisitsItem /\ c.kind = "FuncCall")
        => IF ds = {}
           THEN err' = "Function Call error: function not declared"
           ELSE err' = NoErr /\ \E d \in ds : ret' = d.type.type.type.types[1]
C10_CalleeCheck == [][C10_Step]_vars

(* C11: the checker does not mutate the tree: no visit assigns to a field  *)
(* of a node, the `type` field of a Cast included.                         *)
C11_TreeNotMutated == muts = <<>>

(* C12: checking stops at the first exception.  At most one exception is   *)
(* raised in a run; once it is raised no further node is visited, the      *)
(* symbol table is not bound to or scoped again (it stays as the raise     *)
(* found it) and the run is over.                                          *)
C12_StopsAtFirstError ==
    /\ Len(errs) <= 1
    /\ (err # NoErr) <=> (Len(errs) = 1)
    /\ (pc = "raised") <=> (Len(errs) = 1)
    /\ Len(errs) = 1 =>
          /\ errs[1].err = err
          /\ Len(log) = errs[1].visited
          /\ scope = errs[1].scope /\ symtabs = errs[1].symtabs
          /\ begins = errs[1].begins /\ ends = errs[1].ends

C12_Witness ==
    /\ pc = "raised" /\ err = "Assignment error: undefined element"
    /\ Len(gdecls) = 2 /\ gdecls[1] = DeclX /\ LastItem = DefE
    /\ log[Len(log)] = <<"ID", 11>>
    /\ symtabs = <<("x" :> "int") @@ ("e" :> "int"), <<>>>>

(* the names the initializer of a for-loop declares *)
ForNames(for) ==
    IF for.init.kind = "DeclList"
    THEN {for.init.decls[i].name.name : i \in 1..Len(for.init.decls)} ELSE {}

(* C13: a for-loop, with or without initializer, condition and next        *)
(* expression, is checked in a scope of its own: the check of a function   *)
(* whose body is the loop succeeds, leaves the scope stack as deep as it   *)
(* was, and leaves the names declared by the initializer not found.        *)
C13_Step ==
    LET d == gdecls'[Len(gdecls')]
    IN (/\ VisitsItem /\ d.kind = "FuncDef"
        /\ Len(d.body.block_items) = 1 /\ d.body.block_items[1].kind = "For")
        => /\ err' = NoErr
           /\ scope' = scope /\ Len(symtabs') = Len(symtabs)
           /\ \A n \in ForNames(d.body.block_items[1]) :
                 lookup(CurSt, n).ret = None => lookup(CurSt', n).ret = None
C13_ForLoopScope == [][C13_Step]_vars

(* C18: a UnaryOp whose operand (a bound identifier, a constant or a       *)
(* nested expression) resolves to T raises "Unary operation: operator      *)
(* mismatch" exactly when the operator is not a unary operator of T, and   *)
(* succeeds otherwise.                                                     *)
C18_Step ==
    LET u == gdecls'[Len(gdecls')]
        T == RefType(u.expr, CurSt)
    IN (VisitsItem /\ u.kind = "UnaryOp" /\ Truthy(T))
        => err' = IF u.op \in unary_ops(T) THEN NoErr
                  ELSE "Unary operation: operator mismatch"
C18_UnaryOpOutcome == [][C18_Step]_vars

(* C20: a Cast succeeds whatever its operand is and resolves to the type   *)
(* the cast names.                                                         *)
C20_Step ==
    LET c == gdecls'[Len(gdecls')]
    IN (VisitsItem /\ c.kind = "Cast")
        => err' = NoErr /\ ret' = c.type.types[1]
C20_CastResolvesToTarget == [][C20_Step]_vars

-----------------------------------------------------------------------------
(* Claims about single rules of the visitor (SpecNode)                     *)

(* the node the step visits, when the step visits one *)
VisitsNode == pc = "env" /\ Len(gdecls') = Len(gdecls) + 1

(* C14: a block has a scope frame of its own: in `{ { int t; } t = 1; }`   *)
(* a frame is opened for the inner block, and t, declared in it and in no  *)
(* enclosing scope, is not found once the inner block is checked, so the   *)
(* assignment raises "Assignment error: undefined element".                *)
C14_Step ==
    (VisitsNode /\ gdecls'[Len(gdecls')] = BlockItem)
        => /\ begins' > begins
           /\ err' = "Assignment error: undefined element"
C14_BlockScope == [][C14_Step]_vars

(* C15: visit_Decl of `T n = init` binds n to T in the innermost open      *)
(* scope and succeeds exactly when the initializer (a constant, a bound    *)
(* identifier or an expression) resolves to T; otherwise it raises         *)
(* "Declaration error: Init type differs from declared type".              *)
C15_Step ==
    LET d == gdecls'[Len(gdecls')]
        T == d.type.type.types[1]
        U == RefType(d.init, CurSt)
    IN (/\ VisitsNode /\ d.kind = "Decl" /\ d.type.kind = "VarDecl"
        /\ d.init.kind # "NoneType" /\ Truthy(U))
        => /\ d.name.name \in DOMAIN symtabs'[Len(symtabs')]
           /\ symtabs'[Len(symtabs')][d.name.name] = T
           /\ err' = IF U = T THEN NoErr
                     ELSE "Declaration error: Init type differs from declared type"
C15_DeclInitializer == [][C15_Step]_vars

(* the dimensions of an array declarator, in source order *)
RECURSIVE SourceDims(_)
SourceDims(d) ==
    IF d.kind = "ArrayDecl" THEN <<DimValue(d)>> \o SourceDims(d.type) ELSE <<>>

(* C16: checking the declaration of an array with dimensions d1, ..., dk   *)
(* records [d1, ..., dk] under the array's name, in source order, a        *)
(* dimension that is absent or not a constant being None.                  *)
C16_Step ==
    LET d == gdecls'[Len(gdecls')]
    IN (VisitsNode /\ d.kind = "Decl" /\ d.type.kind = "ArrayDecl")
        => /\ d.name.name \in DOMAIN amap'
           /\ amap'[d.name.name].dims = SourceDims(d.type)
C16_DimensionsInSourceOrder == [][C16_Step]_vars

(* C17: an ArrayRef raises "Array Refence error: Array not declared" when  *)
(* its base name is bound nowhere, and for a base bound as array or string *)
(* it raises "Array Refence error: Index not integer" whenever the         *)
(* subscript (constant, identifier, ArrayRef or binary expression) does    *)
(* not resolve to int.                                                     *)
C17_Step ==
    LET r == gdecls'[Len(gdecls')]
        B == lookup(CurSt, r.name.name).ret
    IN (VisitsNode /\ r.kind = "ArrayRef")
        => /\ B = None => err' = "Array Refence error: Array not declared"
           /\ (B \in {"array", "string"} /\ RefType(r.subscript, CurSt) # "int")
                 => err' = "Array Refence error: Index not integer"
C17_ArrayRefErrors == [][C17_Step]_vars

(* C19: visit_InitList returns the common type of the elements when they   *)
(* all resolve to one type, raises "InitList error: Type consistency" when *)
(* one differs from the first, and returns None for the empty list.        *)
C19_Step ==
    LET l == gdecls'[Len(gdecls')]
        ts == [k \in 1..Len(l.exprs) |-> RefType(l.exprs[k], CurSt)]
    IN (VisitsNode /\ l.kind = "InitList" /\ \A k \in 1..Len(l.exprs) : Truthy(ts[k]))
        => IF Len(l.exprs) = 0 THEN err' = NoErr /\ ret' = None
           ELSE IF \A k \in 1..Len(l.exprs) : ts[k] = ts[1]
                THEN err' = NoErr /\ ret' = ts[1]
           ELSE err' = "InitList error: Type consistency"
C19_InitListType == [][C19_Step]_vars

-----------------------------------------------------------------------------
(* C24: in every state of a SymbolTable, whatever calls were made and      *)
(* whether or not they raised, scope = len(symtabs) - 1 and scope >= -1,   *)
(* so symtabs[scope] is the last frame pushed and not yet popped.          *)
C24_ScopeCounter ==
    /\ scope = Len(symtabs) - 1
    /\ scope >= -1
    /\ Len(symtabs) > 0 => PyIndex(Len(symtabs), scope) = Len(symtabs)

(* a put raised on a table whose two scopes had been opened, written to    *)
(* and closed again                                                        *)
C24_Witness ==
    /\ op = "put" /\ err = "IndexError"
    /\ begins = 2 /\ ends = 2 /\ Len(puts) >= 1
    /\ scope = -1 /\ symtabs = <<>>

(* the chain read from the head of the declarator under construction *)
DeclChain == Chain(heap, head, Len(heap) + 1)

ChainWellFormed ==
    /\ Len(DeclChain) = Len(applied) + 1
    /\ \A i, j \in 1..Len(DeclChain) : i # j => DeclChain[i] # DeclChain[j]
    /\ DeclChain[Len(DeclChain)] = 1
    /\ \A i \in 1..Len(DeclChain) : heap[DeclChain[i]].kind = "VarDecl" <=> i = Len(DeclChain)
    /\ \A k \in 1..Len(applied) :
          Cardinality({i \in 1..Len(DeclChain) : DeclChain[i] = applied[k]}) = 1

(* C25: every call of _type_modify_decl on a VarDecl leaf, or on a chain   *)
(* ending in it, with a fresh modifier returns an acyclic chain that ends  *)
(* in that one VarDecl leaf and holds every modifier applied so far        *)
(* exactly once; when the declarator was already a chain its head stays    *)
(* the head.                                                               *)
C25_Step ==
    (heap[1].kind = "VarDecl" /\ ChainWellFormed /\ Len(heap') = Len(heap) + 1)
        => /\ err' = NoErr
           /\ ChainWellFormed'
           /\ Len(applied) >= 1 => head' = head
C25_ChainStaysWellFormed == [][C25_Step]_vars

(* f(...)[5][10]-like declarator: three modifiers, the first one the head *)
C25_Witness ==
    /\ heap[1].kind = "VarDecl" /\ Len(applied) = 3
    /\ head = applied[1] /\ heap[applied[1]].kind = "FuncDecl"
    /\ heap[applied[3]].kind = "ArrayDecl" /\ heap[applied[3]].type = 1
    /\ ChainWellFormed

-----------------------------------------------------------------------------
(* the entries NodeVisitor.visit appended to the log during this step *)
VisitedNow == SubSeq(log', Len(log) + 1, Len(log'))

(* C23: while one item of the program is checked, NodeVisitor.visit is     *)
(* entered at most once for each node: no node (class and coordinate)      *)
(* occurs twice among the visits of the item.                              *)
C23_Step ==
    VisitsItem =>
        \A i, j \in 1..Len(VisitedNow) : i # j => VisitedNow[i] # VisitedNow[j]
C23_EachNodeVisitedOnce == [][C23_Step]_vars

-----------------------------------------------------------------------------
(* C22: _fix_decl_name_type with an empty specifier list gives the leaf    *)
(* VarDecl the type `int` when the head of the declarator is a FuncDecl,   *)
(* and for every other declarator raises the "Missing type in declaration" *)
(* ParseError with the declaration's coordinate, leaving the leaf untyped. *)
C22_Step ==
    (pc = "start" /\ pc' = "fixed" /\ arg' = <<>> /\ heap[1].kind = "VarDecl")
        => IF heap[head].kind = "FuncDecl"
           THEN /\ err' = NoErr
                /\ heap'[1].type # Nil
                /\ heap'[heap'[1].type].kind = "Type"
                /\ heap'[heap'[1].type].names = <<"int">>
           ELSE /\ err' = parse_error("Missing type in declaration", DeclCoord)
                /\ heap'[1].type = Nil
C22_MissingSpecifier == [][C22_Step]_vars

-----------------------------------------------------------------------------
(* C21: every reduction of `list , item` by ExprList.concat_exprs leaves   *)
(* as the value of the list one ExprList whose exprs are the items read so *)
(* far, in source order, none of them an ExprList.                         *)
C21_Step ==
    (pc = "list" /\ Len(applied') = Len(applied) + 1)
        => /\ err' = NoErr
           /\ aux'.kind = "ExprList"
           /\ aux'.exprs = applied'
           /\ \A i \in 1..Len(applied') : applied'[i].kind # "ExprList"
C21_FlatExprList == [][C21_Step]_vars
====
